---- MODULE Spec2Model ----
(***************************************************************************)
(* Model of app.py: the /generate_wrapped handler, the fetch_data cache,   *)
(* the error handler, and the statistics the handler derives.              *)
(*                                                                         *)
(* Python values are modelled as follows.  A dict is a record whose DOMAIN *)
(* is the dict's key set, so `"k" in d` is `"k" \in DOMAIN d`.  A list is  *)
(* a sequence.  A str that the code inspects or builds character by        *)
(* character (the username, the problem id, the percentile) is a sequence  *)
(* of one-character strings; other strs (ranks, tags, verdicts, messages)  *)
(* are TLA+ strings.  A raised exception is a record with field "exc".     *)
(***************************************************************************)
EXTENDS Integers, Sequences, FiniteSets, TLC

VARIABLES
    cache,        \* the TTLCache: its links; a link records the seconds it
                  \* has left, expires - time.monotonic()
    nreq,         \* how many requests have been received (bounds the model)
    pc,           \* "idle" | "pool" (inside the ThreadPoolExecutor block)
    request,      \* the JSON body of the request being served
    futures,      \* the four fetch_data tasks of the last request
    calls,        \* keys for which requests.get was issued in this request
    response,     \* the last HTTP response: [code, body]
    log,          \* what the last request passed to logger.error: pairs of
                  \* the message's fixed text and the str(e) that follows it
    locals,       \* local variables of the last run of lines 84-144
    this_year_start,   \* datetime(datetime.now().year, 1, 1).timestamp()
    ms_args,      \* inputs of the milestone table (lines 134-144)
    milestones    \* the list the milestone table yields

vars == <<cache, nreq, pc, request, futures, calls, response,
          log, locals, this_year_start, ms_args, milestones>>

----------------------------------------------------------------------------
(* Bounds of the model *)

MaxSubs == 3
MaxStreakSubs == 4
MaxRequests == 2

(* Program constants *)

CACHE_TTL == 1800
MAX_WORKERS == 2
SOLVED_MILESTONE == 500
RATING_MILESTONE == 3000
CONTESTS_MILESTONE == 10
STREAK_MILESTONE == 7
YEARLY_MILESTONE == 100

----------------------------------------------------------------------------
(* Python built-ins used by the handler *)

None == [none |-> TRUE]

Raise(type, text) == [exc |-> TRUE, type |-> type, text |-> text]

IsExc(v) == "exc" \in DOMAIN v

Alnum == {"a", "b", "c", "e", "i", "l", "o", "r", "s", "t", "u",
          "0", "1", "2", "3", "4", "5", "6", "7", "8", "9", "A", "B"}

\* str.isalnum(): at least one character and every character alphanumeric
isalnum(s) == Len(s) > 0 /\ \A i \in 1..Len(s) : s[i] \in Alnum

\* bool(x) for the kinds of JSON value a username can be
Truthy(v) ==
    CASE v.type = "NoneType" -> FALSE
      [] v.type = "str" -> v.chars # <<>>
      [] v.type = "int" -> v.num # 0
      [] v.type = "list" -> v.num # 0

DigitChar(d) == <<"0", "1", "2", "3", "4", "5", "6", "7", "8", "9">>[d + 1]

\* str(n) for n >= 0
RECURSIVE IntToStr(_)
IntToStr(n) ==
    IF n < 10 THEN <<DigitChar(n)>>
    ELSE IntToStr(n \div 10) \o <<DigitChar(n % 10)>>

Max2(a, b) == IF a >= b THEN a ELSE b

\* sorted(S) for a set of integers
RECURSIVE sorted(_)
sorted(S) ==
    IF S = {} THEN <<>>
    ELSE LET m == CHOOSE x \in S : \A y \in S : x <= y
         IN <<m>> \o sorted(S \ {m})

\* min(list) for a non-empty list of integers
SeqMin(s) == CHOOSE x \in {s[i] : i \in 1..Len(s)} :
                 \A i \in 1..Len(s) : x <= s[i]

\* Counter(s)[e]
Count(s, e) == Cardinality({i \in 1..Len(s) : s[i] = e})

\* Counter(s).most_common(1)[0][0]: the largest tally, the element met first
\* winning a tie (max() over the Counter's insertion order)
most_common(s) ==
    LET first(e) == CHOOSE i \in 1..Len(s) :
                        s[i] = e /\ \A j \in 1..(i - 1) : s[j] # e
        best == CHOOSE i \in 1..Len(s) :
                    /\ first(s[i]) = i
                    /\ \A j \in 1..Len(s) : Count(s, s[j]) <= Count(s, s[i])
                    /\ \A j \in 1..(i - 1) :
                           first(s[j]) = j => Count(s, s[j]) < Count(s, s[i])
    IN s[best]

RECURSIVE Flatten(_)
Flatten(ss) == IF ss = <<>> THEN <<>> ELSE Head(ss) \o Flatten(Tail(ss))

----------------------------------------------------------------------------
(* datetime *)

\* datetime.utcfromtimestamp(ts).date(), as the proleptic Gregorian day
\* count from 1970-01-01; date + timedelta(days=1) is the count plus one
utcdate(ts) == ts \div 86400

\* the month (1..12) of a day count: the civil-from-days computation
MonthOfDay(day) ==
    LET z == day + 719468
        era == z \div 146097
        doe == z - era * 146097
        yoe == (doe - doe \div 1460 + doe \div 36524 - doe \div 146096) \div 365
        doy == doe - (365 * yoe + yoe \div 4 - yoe \div 100)
        mp == (5 * doy + 2) \div 153
    IN IF mp < 10 THEN mp + 3 ELSE mp - 9

MonthName(m) ==
    <<"January", "February", "March", "April", "May", "June", "July",
      "August", "September", "October", "November", "December">>[m]

\* datetime.utcfromtimestamp(ts).strftime("%B")
strftimeB(ts) == MonthName(MonthOfDay(utcdate(ts)))

----------------------------------------------------------------------------
(* generate_wrapped, lines 84-162: the statistics *)

Accepted(sub) == sub.verdict = "OK"

\* f"{sub['problem']['contestId']}-{sub['problem']['index']}"
ProblemId(sub) ==
    IntToStr(sub.problem.contestId) \o <<"-">> \o sub.problem.index

\* the key whose lookup fails while lines 95-130 read one submission, or ""
SubMissingKey(sub) ==
    IF "verdict" \notin DOMAIN sub THEN "verdict"
    ELSE IF Accepted(sub) /\ "contestId" \notin DOMAIN sub.problem
         THEN "contestId"
         ELSE ""

\* total_solved as a list: one element per accepted submission
total_solved_PerSubmission(submissions) ==
    {<<i, ProblemId(submissions[i])>> :
        i \in {j \in 1..Len(submissions) : Accepted(submissions[j])}}

\* line 95
total_solved(submissions) ==
    {ProblemId(submissions[i]) :
        i \in {j \in 1..Len(submissions) : Accepted(submissions[j])}}

\* line 97
yearly_solved(submissions, year_start) ==
    {ProblemId(submissions[i]) :
        i \in {j \in 1..Len(submissions) :
                 /\ Accepted(submissions[j])
                 /\ submissions[j].creationTimeSeconds >= year_start}}

\* line 100
solved_days(submissions) ==
    sorted({utcdate(submissions[i].creationTimeSeconds) :
               i \in {j \in 1..Len(submissions) : Accepted(submissions[j])}})

\* lines 102-107, from index i (1-based) on; yields <<longest, current>>
RECURSIVE StreakLoop(_, _, _, _)
StreakLoop(days, i, longest_streak, current_streak) ==
    IF i > Len(days) THEN <<longest_streak, current_streak>>
    ELSE IF days[i] = days[i - 1] + 1
         THEN StreakLoop(days, i + 1, longest_streak, current_streak + 1)
         ELSE StreakLoop(days, i + 1, Max2(longest_streak, current_streak), 1)

\* longest_streak without line 108
longest_streak_NoFinalMax(days) == StreakLoop(days, 2, 0, 1)[1]

\* lines 101-108
longest_streak(days) ==
    LET end == StreakLoop(days, 2, 0, 1)
    IN Max2(end[1], end[2])

\* sub["problem"].get("tags", [])
TagsOf(sub) ==
    IF "tags" \in DOMAIN sub.problem THEN sub.problem.tags ELSE <<>>

\* line 111
topics(submissions) ==
    LET acc == SelectSeq(submissions, Accepted)
    IN Flatten([i \in 1..Len(acc) |-> TagsOf(acc[i])])

\* line 130
submission_months(submissions) ==
    LET acc == SelectSeq(submissions, Accepted)
    IN [i \in 1..Len(acc) |-> strftimeB(acc[i].creationTimeSeconds)]

\* line 112 and line 131
MostCommonOrNA(s) == IF s # <<>> THEN most_common(s) ELSE "N/A"

\* user_data.get(key, default)
DictGet(d, key, default) == IF key \in DOMAIN d THEN d[key] ELSE default

\* line 121
yearly_contests(contests, year_start) ==
    LET thisYear(c) == c.ratingUpdateTimeSeconds >= year_start
    IN SelectSeq(contests, thisYear)

\* lines 121-124
rating_improvement(user_data, contests, year_start) ==
    LET yc == yearly_contests(contests, year_start)
        start_rating == IF yc # <<>> THEN yc[1].oldRating
                        ELSE DictGet(user_data, "rating", 0)
        end_rating == IF yc # <<>> THEN yc[Len(yc)].newRating
                      ELSE DictGet(user_data, "rating", 0)
    IN end_rating - start_rating

\* round(n / d) to the nearest integer, ties to even, for n >= 0, d > 0
RoundDiv(n, d) ==
    LET q == n \div d
        r == n % d
    IN IF 2 * r > d \/ (2 * r = d /\ q % 2 = 1) THEN q + 1 ELSE q

\* f"Top {(rating / highest) * 100:.2f}%", for rating >= 0 and highest > 0.
\* The float product is rendered with two decimals; the model computes the
\* same quotient in hundredths of a percent.
FormatPercentile(rating, highest) ==
    LET h == RoundDiv(rating * 10000, highest)
    IN <<"T", "o", "p", " ">> \o IntToStr(h \div 100) \o <<".">>
       \o <<DigitChar((h % 100) \div 10), DigitChar(h % 10)>> \o <<"%">>

NA == <<"N", "/", "A">>

\* global_percentile with the division guarded
global_percentile_Guarded(user_data, HIGHEST_RATED_USER) ==
    IF "rating" \in DOMAIN user_data /\ HIGHEST_RATED_USER # 0
    THEN [str |-> FormatPercentile(user_data.rating, HIGHEST_RATED_USER)]
    ELSE [str |-> NA]

\* line 127: the str the f-string yields, or the ZeroDivisionError the
\* division raises
global_percentile(user_data, HIGHEST_RATED_USER) ==
    IF "rating" \in DOMAIN user_data
    THEN IF HIGHEST_RATED_USER = 0
         THEN Raise("ZeroDivisionError", "division by zero")
         ELSE [str |-> FormatPercentile(user_data.rating, HIGHEST_RATED_USER)]
    ELSE [str |-> NA]

\* dict[key] = value while a dict literal is built: a key already present
\* keeps its position and takes the new value
DictSet(d, key, value) ==
    IF \E i \in 1..Len(d) : d[i][1] = key
    THEN [i \in 1..Len(d) |-> IF d[i][1] = key THEN <<key, value>> ELSE d[i]]
    ELSE Append(d, <<key, value>>)

RECURSIVE DictLiteral(_)
DictLiteral(items) ==
    IF items = <<>> THEN <<>>
    ELSE LET last == items[Len(items)]
         IN DictSet(DictLiteral(SubSeq(items, 1, Len(items) - 1)),
                    last[1], last[2])

\* lines 134-141: the dict keyed by the six conditions
milestone_conditions(n_total, current_rank, rating, n_contests, streak, n_yearly) ==
    DictLiteral(<<
        <<n_total >= SOLVED_MILESTONE, "Solved 500+ problems">>,
        <<current_rank \in {"grandmaster", "legendary grandmaster"},
          "Achieved Grandmaster rank">>,
        <<rating >= RATING_MILESTONE, "Reached a rating of 3000+">>,
        <<n_contests >= CONTESTS_MILESTONE, "Participated in 10+ contests">>,
        <<streak >= STREAK_MILESTONE, "Maintained a streak of 7+ days">>,
        <<n_yearly >= YEARLY_MILESTONE, "Solved 100+ problems this year">>
    >>)

\* line 144
MilestoneList(n_total, current_rank, rating, n_contests, streak, n_yearly) ==
    LET d == milestone_conditions(n_total, current_rank, rating, n_contests,
                                  streak, n_yearly)
        holds(item) == item[1]
        kept == SelectSeq(d, holds)
    IN [i \in 1..Len(kept) |-> kept[i][2]]

\* lines 84-160 on four payloads that passed the status check; the record of
\* the response and of the locals, or the exception the lines raise
Aggregate(username, user_info, user_status, user_rating, tourist_info, year_start) ==
    LET submissions == user_status.result
        contests == user_rating.result
        bad == {i \in 1..Len(submissions) : SubMissingKey(submissions[i]) # ""}
    IN
    IF "result" \notin DOMAIN user_info
    THEN Raise("KeyError", "'result'")
    ELSE IF user_info.result = <<>>
    THEN Raise("IndexError", "list index out of range")
    ELSE IF \/ "result" \notin DOMAIN user_status
            \/ "result" \notin DOMAIN user_rating
            \/ "result" \notin DOMAIN tourist_info
    THEN Raise("KeyError", "'result'")
    ELSE IF tourist_info.result = <<>>
    THEN Raise("IndexError", "list index out of range")
    ELSE IF "rating" \notin DOMAIN tourist_info.result[1]
    THEN Raise("KeyError", "'rating'")
    ELSE IF bad # {}
    THEN LET i == CHOOSE j \in bad : \A k \in bad : j <= k
         IN Raise("KeyError", "'" \o SubMissingKey(submissions[i]) \o "'")
    ELSE IF IsExc(global_percentile(user_info.result[1],
                                    tourist_info.result[1].rating))
    THEN global_percentile(user_info.result[1], tourist_info.result[1].rating)
    ELSE
    LET user_data == user_info.result[1]
        HIGHEST_RATED_USER == tourist_info.result[1].rating
        current_rank == DictGet(user_data, "rank", "N/A")
        max_rank == DictGet(user_data, "maxRank", "N/A")
        total == total_solved(submissions)
        yearly == yearly_solved(submissions, year_start)
        days == solved_days(submissions)
        streak == longest_streak(days)
        tops == topics(submissions)
        months == submission_months(submissions)
        contests_participated == Len(contests)
        highest_rank ==
            IF contests # <<>>
            THEN [kind |-> "int",
                  value |-> SeqMin([i \in 1..Len(contests) |-> contests[i].rank])]
            ELSE [kind |-> "str", value |-> 0]
        ms == MilestoneList(Cardinality(total), current_rank,
                            DictGet(user_data, "rating", 0),
                            contests_participated, streak, Cardinality(yearly))
    IN [response |->
           [username |-> username,
            current_rank |-> current_rank,
            highest_rank |-> highest_rank,
            longest_streak |-> streak,
            problems_solved_this_year |-> Cardinality(yearly),
            total_problems_solved |-> Cardinality(total),
            favorite_topic |-> MostCommonOrNA(tops),
            contests_participated |-> contests_participated,
            rating_improvement |->
                rating_improvement(user_data, contests, year_start),
            best_month |-> MostCommonOrNA(months),
            motivational_message |-> "Keep pushing your limits!",
            global_percentile |->
                global_percentile(user_data, HIGHEST_RATED_USER).str],
        locals |->
           [submissions |-> submissions,
            year_start |-> year_start,
            max_rank |-> max_rank,
            total_solved |-> total,
            yearly_solved |-> yearly,
            solved_days |-> days,
            topics |-> tops,
            submission_months |-> months,
            milestones |-> ms]]

----------------------------------------------------------------------------
(* cache = TTLCache(maxsize=100, ttl=CACHE_TTL) and fetch_data *)

\* cache_key = (url, frozenset(params.items()))
CacheKey(url, param, handle) ==
    [url |-> url, params |-> {<<param, handle>>}]

\* The cache is the set of its links.  TTLCache unlinks an expired link only
\* at the next assignment, but no operation the program uses can tell an
\* expired link from a missing one, so the model drops a link when it expires.
\* The order of the links decides only which one maxsize=100 evicts; the
\* model's requests touch far fewer than 100 keys, so the order is left out.

\* key in cache: the key has a link that has not expired
\* (self.timer() < link.expires)
CacheContains(c, key) ==
    \E link \in c : link.key = key /\ 0 < link.expires_in

\* cache[key], for a key the cache contains
CacheGet(c, key) == (CHOOSE link \in c : link.key = key).value

\* TTLCache.expire(): drop the links that have expired
CacheExpire(c) == {link \in c : 0 < link.expires_in}

\* cache[key] = value: the new link expires CACHE_TTL seconds from now
CacheSet(c, key, value) ==
    {link \in CacheExpire(c) : link.key # key}
    \cup {[key |-> key, value |-> value, expires_in |-> CACHE_TTL]}

\* What requests.get(url, params).json() can yield for each endpoint: a
\* decoded payload, or an exception (no connection, a body that is no JSON).
NetworkError == Raise("ConnectionError", "Max retries exceeded with url")

Failed == [status |-> "FAILED", comment |-> "handle: not found"]

NoStatus == [message |-> "Service Unavailable"]

Str(s) == [type |-> "str", chars |-> s, num |-> 0]

Tourist == <<"t", "o", "u", "r", "i", "s", "t">>

Profiles ==
    {[handle |-> "h"],
     [handle |-> "h", rank |-> "newbie", maxRank |-> "pupil", rating |-> 1500],
     [handle |-> "h", rank |-> "unrated", maxRank |-> "unrated", rating |-> 0],
     [handle |-> "h", rank |-> "grandmaster",
      maxRank |-> "legendary grandmaster", rating |-> 3000]}

\* datetime(datetime.now().year, 1, 1).timestamp(): the local start of the
\* current year, here 2024 in UTC, 2024 one hour east of UTC, and 2025 in UTC
YearStarts == {1704067200, 1704063600, 1735689600}

Sub(contestId, index, tags, verdict, ts) ==
    [problem |-> [contestId |-> contestId, index |-> index, tags |-> tags],
     verdict |-> verdict, creationTimeSeconds |-> ts]

Contest(rank, old, new, ts) ==
    [rank |-> rank, oldRating |-> old, newRating |-> new,
     ratingUpdateTimeSeconds |-> ts]

\* payloads as the documented API returns them, and others the code accepts
\* as JSON: no status, a failure that carries a result, a success without one
InfoPayloads ==
    {[status |-> "OK", result |-> <<p>>] : p \in Profiles}
    \cup {Failed, NoStatus,
          [status |-> "FAILED", comment |-> "Call limit exceeded",
           result |-> <<[handle |-> "h", rank |-> "newbie",
                         maxRank |-> "pupil", rating |-> 1500]>>]}

StatusPayloads ==
    {[status |-> "OK", result |-> <<>>],
     [status |-> "OK",
      result |-> <<Sub(1, <<"A">>, <<"dp">>, "WRONG_ANSWER", 1704067200)>>],
     [status |-> "OK",
      result |-> <<Sub(1, <<"A">>, <<"dp", "math">>, "OK", 1704067199),
                   Sub(1, <<"A">>, <<"dp", "math">>, "OK", 1704067200),
                   [problem |-> [index |-> <<"B">>, tags |-> <<>>],
                    verdict |-> "WRONG_ANSWER",
                    creationTimeSeconds |-> 1704153600]>>],
     [status |-> "OK",
      result |-> <<[problem |-> [index |-> <<"B">>, tags |-> <<>>],
                    verdict |-> "OK", creationTimeSeconds |-> 1704153600]>>],
     [status |-> "OK"],
     Failed}

RatingPayloads ==
    {[status |-> "OK", result |-> <<>>],
     [status |-> "OK",
      result |-> <<Contest(120, 1400, 1450, 1704067199),
                   Contest(80, 1450, 1500, 1704153600)>>],
     Failed}

\* the outcomes of an upstream call the server model draws from
Upstream(key) ==
    CASE key.url = "user.info" ->
           {[status |-> "OK",
             result |-> <<[handle |-> "h", rank |-> "newbie",
                           maxRank |-> "pupil", rating |-> 1500]>>],
            Failed, NetworkError}
      [] key.url = "user.status" ->
           {[status |-> "OK",
             result |-> <<Sub(1, <<"A">>, <<"dp">>, "OK", 1704067200)>>],
            Failed}
      [] key.url = "user.rating" ->
           {[status |-> "OK", result |-> <<>>], Failed}

----------------------------------------------------------------------------
(* The requests a client can send *)

PyNone == [type |-> "NoneType", chars |-> <<>>, num |-> 0]

PyInt(n) == [type |-> "int", chars |-> <<>>, num |-> n]

\* a JSON array of n elements
PyList(n) == [type |-> "list", chars |-> <<>>, num |-> n]

Usernames ==
    {PyNone, Str(<<>>), PyInt(0), PyInt(7), PyList(0), PyList(1),
     Str(<<"a", " ", "b">>), Str(<<"a", "-", "1">>),
     Str(<<"b", "o", "b", "1">>), Str(Tourist)}

\* request.json: a body that is no JSON, JSON that is no object (null, an
\* array), an object without "username", an object with one
Bodies ==
    {[type |-> "malformed"], [type |-> "NoneType"], [type |-> "list"],
     [type |-> "dict", value |-> [handle |-> Str(<<"b", "o", "b", "1">>)]]}
    \cup {[type |-> "dict", value |-> [username |-> u]] : u \in Usernames}

\* werkzeug's BadRequest, raised by request.json for a body that is no JSON
BadRequest ==
    [exc |-> TRUE, type |-> "BadRequest", code |-> 400,
     text |-> "400 Bad Request: The browser (or proxy) sent a request that this server could not understand.",
     description |-> "The browser (or proxy) sent a request that this server could not understand."]

\* isinstance(e, HTTPException)
IsHTTPException(e) == "code" \in DOMAIN e

\* handle_exception(e), lines 43-51: what is logged and what is answered
handle_exception(e) ==
    [log |-> <<<<"An error occurred: ", e.text>>>>,
     response |->
        IF IsHTTPException(e)
        THEN [code |-> e.code, body |-> [error |-> e.description]]
        ELSE [code |-> 500, body |-> [error |-> "An unexpected error occurred"]]]

Queued(key) == [pc |-> "queued", key |-> key, result |-> None]

Done(key, result) == [pc |-> "done", key |-> key, result |-> result]

\* lines 70-73: the four tasks, in submission order
Submitted(username) ==
    <<Queued(CacheKey("user.info", "handles", username)),
      Queued(CacheKey("user.status", "handle", username)),
      Queued(CacheKey("user.rating", "handle", username)),
      Queued(CacheKey("user.info", "handles", Tourist))>>

\* lines 59-73: the request is refused, or its four fetches are submitted
ReceiveRequest(body) ==
    /\ pc = "idle"
    /\ nreq < MaxRequests
    /\ nreq' = nreq + 1
    /\ request' = body
    /\ calls' = {}
    /\ locals' = None
    /\ UNCHANGED <<cache, this_year_start, ms_args, milestones>>
    /\ IF body.type = "malformed"
       THEN /\ log' = handle_exception(BadRequest).log
            /\ response' = handle_exception(BadRequest).response
            /\ futures' = <<>>
            /\ UNCHANGED pc
       ELSE IF body.type # "dict"
       THEN LET e == Raise("AttributeError",
                           "'" \o body.type \o "' object has no attribute 'get'")
            IN /\ log' = handle_exception(e).log
               /\ response' = handle_exception(e).response
               /\ futures' = <<>>
               /\ UNCHANGED pc
       ELSE LET username == DictGet(body.value, "username", PyNone)
            IN IF ~Truthy(username)
               THEN /\ response' = [code |-> 400,
                                    body |-> [error |-> "Username is required"]]
                    /\ log' = <<>>
                    /\ futures' = <<>>
                    /\ UNCHANGED pc
               ELSE IF username.type # "str" \/ ~isalnum(username.chars)
               THEN /\ response' = [code |-> 400,
                                    body |-> [error |-> "Invalid username format"]]
                    /\ log' = <<>>
                    /\ futures' = <<>>
                    /\ UNCHANGED pc
               ELSE /\ pc' = "pool"
                    /\ futures' = Submitted(username.chars)
                    /\ response' = None
                    /\ log' = <<>>

Running == {i \in 1..4 : futures[i].pc \in {"line38", "line39"}}

\* a worker takes task i off the queue and runs lines 36-37
Lookup(i) ==
    /\ pc = "pool"
    /\ futures[i].pc = "queued"
    /\ \A j \in 1..(i - 1) : futures[j].pc # "queued"
    /\ Cardinality(Running) < MAX_WORKERS
    /\ futures' = [futures EXCEPT ![i].pc =
                      IF CacheContains(cache, futures[i].key)
                      THEN "line38" ELSE "line39"]
    /\ UNCHANGED <<cache, nreq, pc, request, calls, response,
                   log, locals, this_year_start, ms_args, milestones>>

\* line 38: return cache[cache_key]; KeyError if the link expired meanwhile
GetItem(i) ==
    /\ pc = "pool"
    /\ futures[i].pc = "line38"
    /\ futures' = [futures EXCEPT ![i] =
                      Done(@.key,
                           IF CacheContains(cache, @.key)
                           THEN CacheGet(cache, @.key)
                           ELSE Raise("KeyError", "cache_key"))]
    /\ UNCHANGED <<cache, nreq, pc, request, calls, response,
                   log, locals, this_year_start, ms_args, milestones>>

\* line 40 storing successful payloads only
Store_OnlyOK(c, key, payload) ==
    IF payload.status = "OK" THEN CacheSet(c, key, payload) ELSE c

\* line 40: cache[cache_key] = response
Store(c, key, payload) == CacheSet(c, key, payload)

\* lines 39-41: the upstream call returns and its payload is stored
Download(i) ==
    /\ pc = "pool"
    /\ futures[i].pc = "line39"
    /\ \E payload \in Upstream(futures[i].key) :
          /\ futures' = [futures EXCEPT ![i] = Done(@.key, payload)]
          /\ cache' = IF IsExc(payload) THEN cache
                      ELSE Store(cache, futures[i].key, payload)
    /\ calls' = calls \cup {futures[i].key}
    /\ UNCHANGED <<nreq, pc, request, response, log, locals,
                   this_year_start, ms_args, milestones>>

\* the step of the model's clock: half the time an entry lives
TickSeconds == CACHE_TTL \div 2

\* the monotonic clock advances by TickSeconds
Tick ==
    /\ cache # {}
    /\ cache' = CacheExpire({[link EXCEPT !.expires_in = @ - TickSeconds] :
                                link \in cache})
    /\ UNCHANGED <<nreq, pc, request, futures, calls, response, log,
                   locals, this_year_start, ms_args, milestones>>

\* lines 164-166: the except clause of generate_wrapped
ExceptClause(e) ==
    [response |-> [code |-> 500, body |-> [error |-> e.text]],
     log |-> <<<<"Exception in generate_wrapped: ", e.text>>>>,
     locals |-> None]

\* info["status"] != "OK", for a payload that has the key
NotOK(info) == info.status # "OK"

\* line 81 with tourist_info left out of the list
StatusStops_NoReference(r) ==
    {i \in 1..3 : "status" \notin DOMAIN r[i] \/ NotOK(r[i])}

\* line 81: the payloads, of the four, at which any(...) stops: the status
\* is missing (the lookup raises) or is not "OK" (any(...) is true)
StatusStops(r) ==
    {i \in 1..4 : "status" \notin DOMAIN r[i] \/ NotOK(r[i])}

\* lines 75-166 on the four futures' outcomes r: the response, the log, the locals
Join(username, r, year_start) ==
    LET raised == {i \in 1..4 : IsExc(r[i])}
        stop == StatusStops(r)
    IN
    IF raised # {}
    THEN ExceptClause(r[CHOOSE i \in raised : \A j \in raised : i <= j])
    ELSE IF stop # {}
    THEN LET i == CHOOSE j \in stop : \A k \in stop : j <= k
         IN IF "status" \notin DOMAIN r[i]
            THEN ExceptClause(Raise("KeyError", "'status'"))
            ELSE [response |->
                     [code |-> 500,
                      body |-> [error |-> "Failed to fetch data from Codeforces API"]],
                  log |-> <<>>,
                  locals |-> None]
    ELSE LET agg == Aggregate(username, r[1], r[2], r[3], r[4], year_start)
         IN IF IsExc(agg)
            THEN ExceptClause(agg)
            ELSE [response |-> [code |-> 200, body |-> agg.response],
                  log |-> <<>>,
                  locals |-> agg.locals]

\* lines 75-166: the four results are collected and the request is answered
Respond ==
    /\ pc = "pool"
    /\ \A i \in 1..4 : futures[i].pc = "done"
    /\ \E out \in {Join(request.value.username.chars,
                         [i \in 1..4 |-> futures[i].result],
                         this_year_start)} :
          /\ response' = out.response
          /\ log' = out.log
          /\ locals' = out.locals
    /\ pc' = "idle"
    /\ UNCHANGED <<cache, nreq, request, futures, calls, this_year_start,
                   ms_args, milestones>>

\* lines 134-144 on the six values the conditions read
ApplyMilestones ==
    /\ ms_args # None
    /\ milestones = None
    /\ milestones' = [list |-> MilestoneList(ms_args.n_total, ms_args.current_rank,
                                   ms_args.rating, ms_args.n_contests,
                                   ms_args.streak, ms_args.n_yearly)]
    /\ UNCHANGED <<cache, nreq, pc, request, futures, calls,
                   response, log, locals, this_year_start, ms_args>>

----------------------------------------------------------------------------
(* Specifications *)

\* The server after start-up: an empty cache, no request yet
Init ==
    /\ cache = {}
    /\ nreq = 0
    /\ pc = "idle"
    /\ request = None
    /\ futures = <<>>
    /\ calls = {}
    /\ response = None
    /\ log = <<>>
    /\ locals = None
    /\ this_year_start = 1704067200
    /\ ms_args = None
    /\ milestones = None

Next ==
    \/ \E body \in Bodies : ReceiveRequest(body)
    \/ \E i \in 1..4 : Lookup(i)
    \/ \E i \in 1..4 : GetItem(i)
    \/ \E i \in 1..4 : Download(i)
    \/ Respond
    \/ Tick

Spec == Init /\ [][Next]_vars

----------------------------------------------------------------------------
(* Specifications of lines 75-166 alone: a request for "bob1" whose four    *)
(* fetches have returned, with the payloads drawn from wider sets           *)

Bob == <<"b", "o", "b", "1">>

\* sequences over S of length at most n
RECURSIVE SeqsUpTo(_, _)
SeqsUpTo(S, n) ==
    IF n = 0 THEN {<<>>}
    ELSE LET shorter == SeqsUpTo(S, n - 1)
         IN shorter \cup {Append(q, x) : q \in shorter, x \in S}

OK(result) == [status |-> "OK", result |-> result]

Fetched(r1, r2, r3, r4, ys) ==
    /\ cache = {}
    /\ nreq = 1
    /\ pc = "pool"
    /\ request = [type |-> "dict", value |-> [username |-> Str(Bob)]]
    /\ futures = <<Done(CacheKey("user.info", "handles", Bob), r1),
                   Done(CacheKey("user.status", "handle", Bob), r2),
                   Done(CacheKey("user.rating", "handle", Bob), r3),
                   Done(CacheKey("user.info", "handles", Tourist), r4)>>
    /\ calls = {}
    /\ response = None
    /\ log = <<>>
    /\ locals = None
    /\ this_year_start = ys
    /\ ms_args = None
    /\ milestones = None

\* every outcome of every fetch, a failed cache read included
InitJoin ==
    \E r1 \in InfoPayloads \cup {NetworkError},
       r2 \in StatusPayloads \cup {Raise("KeyError", "cache_key")},
       r3 \in RatingPayloads \cup {NetworkError},
       r4 \in InfoPayloads \cup {NetworkError},
       ys \in YearStarts :
        Fetched(r1, r2, r3, r4, ys)

SpecJoin == InitJoin /\ [][Respond]_vars

RatedProfile ==
    [handle |-> "h", rank |-> "newbie", maxRank |-> "pupil", rating |-> 1500]

TopProfile ==
    [handle |-> "h", rank |-> "legendary grandmaster",
     maxRank |-> "legendary grandmaster", rating |-> 3000]

\* submissions of one problem on 1, 2, 3 and 5 January, accepted or not
StreakSubmissions ==
    {Sub(1, <<"A">>, <<"dp">>, v, ts) :
        v \in {"OK", "WRONG_ANSWER"},
        ts \in {1704067200, 1704153599, 1704153600, 1704240000, 1704412800}}

InitStreak ==
    \E subs \in SeqsUpTo(StreakSubmissions, MaxStreakSubs) :
        Fetched(OK(<<RatedProfile>>), OK(subs), OK(<<>>), OK(<<TopProfile>>),
                1704067200)

SpecStreak == InitStreak /\ [][Respond]_vars

\* submissions of two problems, with one or two tags, accepted or not, in the
\* last second of 2023 or the first of 2024
SolvedSubmissions ==
    {Sub(p[1], p[2], tags, v, ts) :
        p \in {<<1, <<"A">>>>, <<12, <<"B", "1">>>>},
        tags \in {<<"dp">>, <<"math", "dp">>},
        v \in {"OK", "WRONG_ANSWER"},
        ts \in {1704067199, 1704067200}}

InitSolved ==
    \E subs \in SeqsUpTo(SolvedSubmissions, MaxSubs), ys \in YearStarts :
        Fetched(OK(<<RatedProfile>>), OK(subs), OK(<<>>), OK(<<TopProfile>>), ys)

SpecSolved == InitSolved /\ [][Respond]_vars

\* the six values at and just below each threshold
InitMilestones ==
    /\ cache = {}
    /\ nreq = 0
    /\ pc = "idle"
    /\ request = None
    /\ futures = <<>>
    /\ calls = {}
    /\ response = None
    /\ log = <<>>
    /\ locals = None
    /\ this_year_start = 1704067200
    /\ milestones = None
    /\ ms_args \in
          [n_total : {0, SOLVED_MILESTONE - 1, SOLVED_MILESTONE},
           current_rank : {"N/A", "master", "grandmaster",
                           "legendary grandmaster"},
           rating : {0, RATING_MILESTONE - 1, RATING_MILESTONE},
           n_contests : {0, CONTESTS_MILESTONE - 1, CONTESTS_MILESTONE},
           streak : {1, STREAK_MILESTONE - 1, STREAK_MILESTONE},
           n_yearly : {0, YEARLY_MILESTONE - 1, YEARLY_MILESTONE}]

SpecMilestones == InitMilestones /\ [][ApplyMilestones]_vars

----------------------------------------------------------------------------
(* Properties *)

\* the request has been answered with the record of statistics
Succeeded == pc = "idle" /\ locals # None

AcceptedIn(submissions) ==
    {i \in 1..Len(submissions) : submissions[i].verdict = "OK"}

\* C1: when no submission of the history is accepted, the record reports
\* longest_streak = 0, favorite_topic = "N/A", best_month = "N/A",
\* total_problems_solved = 0 and problems_solved_this_year = 0.
C1_NoAcceptedSubmission ==
    (Succeeded /\ AcceptedIn(locals.submissions) = {}) =>
        /\ response.body.longest_streak = 0
        /\ response.body.favorite_topic = "N/A"
        /\ response.body.best_month = "N/A"
        /\ response.body.total_problems_solved = 0
        /\ response.body.problems_solved_this_year = 0

\* the messages, in the order of their declaration, whose predicate holds
ExpectedMilestones(a) ==
    LET table == <<
            <<a.n_total >= 500, "Solved 500+ problems">>,
            <<a.current_rank \in {"grandmaster", "legendary grandmaster"},
              "Achieved Grandmaster rank">>,
            <<a.rating >= 3000, "Reached a rating of 3000+">>,
            <<a.n_contests >= 10, "Participated in 10+ contests">>,
            <<a.streak >= 7, "Maintained a streak of 7+ days">>,
            <<a.n_yearly >= 100, "Solved 100+ problems this year">> >>
        holds(row) == row[1]
        kept == SelectSeq(table, holds)
    IN [i \in 1..Len(kept) |-> kept[i][2]]

\* C2: the milestones list holds exactly the messages whose predicate holds,
\* each predicate judged on its own, in the order of declaration.
C2_EveryMilestoneThatHolds ==
    milestones # None => milestones.list = ExpectedMilestones(ms_args)

StatisticsFields ==
    {"current_rank", "max_rank", "total_problems_solved",
     "problems_solved_this_year", "longest_streak", "favorite_topic",
     "highest_rank", "contests_participated", "rating_improvement",
     "best_month", "global_percentile", "milestones", "motivational_message"}

\* C3: a successful answer carries every derived field and the echoed handle;
\* a failed one carries an error and no field of the statistics.
C3_FullRecordOrError ==
    (pc = "idle" /\ response # None) =>
        IF response.code = 200
        THEN DOMAIN response.body = StatisticsFields \cup {"username"}
        ELSE /\ "error" \in DOMAIN response.body
             /\ DOMAIN response.body \cap StatisticsFields = {}

\* the fetches that returned a payload whose status is not "OK"
ReportedFailure ==
    {i \in DOMAIN futures :
        /\ futures[i].pc = "done"
        /\ "status" \in DOMAIN futures[i].result
        /\ futures[i].result.status # "OK"}

\* C4: when any of the four fetches returned a status other than "OK", the
\* request is answered 500 with an error and no field of the statistics, and
\* no statistic is computed, whatever the other fetches returned.
C4_UpstreamFailureAborts ==
    (pc = "idle" /\ response # None /\ ReportedFailure # {}) =>
        /\ response.code = 500
        /\ DOMAIN response.body = {"error"}
        /\ locals = None

C4_Witness ==
    /\ pc = "idle"
    /\ response # None
    /\ ReportedFailure = {4}
    /\ futures[1].result = OK(<<RatedProfile>>)
    /\ futures[2].result \in StatusPayloads \ {Failed}
    /\ response.code = 500

\* the handle of a request body is missing, empty, no string, or holds a
\* character that is not alphanumeric
InvalidHandle(body) ==
    \/ body.type # "dict"
    \/ "username" \notin DOMAIN body.value
    \/ body.value.username.type # "str"
    \/ body.value.username.chars = <<>>
    \/ \E i \in 1..Len(body.value.username.chars) :
          body.value.username.chars[i] \notin Alnum

\* C5: a request with an invalid handle is answered 400 and causes no fetch,
\* no cache access and no aggregation.
C5_InvalidHandleRejected ==
    (request # None /\ InvalidHandle(request)) =>
        /\ pc = "idle"
        /\ response.code = 400
        /\ calls = {}
        /\ locals = None

\* the same for the requests whose body is a JSON object
C5_ObjectBodyRejected ==
    (request # None /\ request.type = "dict" /\ InvalidHandle(request)) =>
        /\ pc = "idle"
        /\ response.code = 400
        /\ calls = {}
        /\ locals = None

\* both profiles arrived, the user's has a rating, the reference rating is 0
ZeroReferenceRating ==
    /\ pc = "idle"
    /\ response # None
    /\ \A i \in {1, 4} :
          /\ "status" \in DOMAIN futures[i].result
          /\ futures[i].result.status = "OK"
          /\ "rating" \in DOMAIN futures[i].result.result[1]
    /\ futures[4].result.result[1].rating = 0

\* C6: with a rated profile and a reference rating of 0 the request fails:
\* no successful record, no global_percentile.
C6_ZeroReferenceRatingFails ==
    ZeroReferenceRating =>
        /\ response.code = 500
        /\ "error" \in DOMAIN response.body
        /\ "global_percentile" \notin DOMAIN response.body

C6_Witness ==
    /\ ZeroReferenceRating
    /\ futures[1].result.result[1].rating = 1500
    /\ futures[2].result = OK(<<>>)
    /\ futures[3].result = OK(<<>>)
    /\ response.body.error = "division by zero"

\* C7: a failure raised while aggregating reaches the caller as a generic
\* message; the text of the exception is logged and not sent.
C7_GenericFailureMessage ==
    (pc = "idle" /\ response # None /\ response.code = 500) =>
        \A i \in 1..Len(log) : response.body.error # log[i][2]

\* the longest run of consecutive days in a set of day numbers
LongestRun(D) ==
    CHOOSE k \in 0..Cardinality(D) :
        /\ k > 0 => \E d \in D : \A j \in 0..(k - 1) : d + j \in D
        /\ \A m \in (k + 1)..Cardinality(D) :
              ~ \E d \in D : \A j \in 0..(m - 1) : d + j \in D

\* the UTC days (counted from 1970-01-01) with an accepted submission
AcceptedDays(submissions) ==
    {submissions[i].creationTimeSeconds \div 86400 :
        i \in AcceptedIn(submissions)}

\* C8: with at least one accepted submission, longest_streak is the length of
\* the longest run of consecutive UTC days with an accepted submission, the
\* last run included, whatever the order and number of the submissions.
C8_LongestStreakIsLongestRun ==
    (Succeeded /\ AcceptedIn(locals.submissions) # {}) =>
        response.body.longest_streak =
            LongestRun(AcceptedDays(locals.submissions))

\* accepted on 5, 1, 3 and 2 January (in some order): the streak is 3
C8_Witness ==
    /\ Succeeded
    /\ AcceptedDays(locals.submissions) = {19723, 19724, 19725, 19727}
    /\ Len(locals.submissions) = 4
    /\ locals.submissions[1].creationTimeSeconds = 1704412800
    /\ response.body.longest_streak = 3

\* a single solved day: the streak is 1
C8_SingleDay ==
    /\ Succeeded
    /\ Cardinality(AcceptedDays(locals.submissions)) = 1
    /\ Cardinality(AcceptedIn(locals.submissions)) = 2
    /\ response.body.longest_streak = 1

\* the problems (contestId, index) of the accepted submissions from ts on
ProblemsSolved(submissions, ts) ==
    {<<submissions[i].problem.contestId, submissions[i].problem.index>> :
        i \in {j \in AcceptedIn(submissions) :
                 submissions[j].creationTimeSeconds >= ts}}

\* the accepted submissions that carry a tag
Tagged(submissions, tag) ==
    {i \in AcceptedIn(submissions) :
        \E k \in 1..Len(submissions[i].problem.tags) :
            submissions[i].problem.tags[k] = tag}

\* the accepted submissions made before, or from, the start of 2024 (UTC)
InMonth(submissions, month) ==
    {i \in AcceptedIn(submissions) :
        IF submissions[i].creationTimeSeconds < 1704067200
        THEN month = "December" ELSE month = "January"}

\* C9: the accepted submissions of one problem count once in
\* total_problems_solved and at most once in problems_solved_this_year; each
\* of them counts once per tag in the topic tally and once in the month
\* tally; the other submissions count nowhere.
C9_ProblemsOnceTalliesEach ==
    Succeeded =>
        /\ response.body.total_problems_solved =
              Cardinality(ProblemsSolved(locals.submissions, 0))
        /\ response.body.problems_solved_this_year =
              Cardinality(ProblemsSolved(locals.submissions, locals.year_start))
        /\ \A tag \in {"dp", "math", "greedy"} :
              Count(locals.topics, tag) =
                  Cardinality(Tagged(locals.submissions, tag))
        /\ Len(locals.topics) =
              Cardinality(Tagged(locals.submissions, "dp"))
              + Cardinality(Tagged(locals.submissions, "math"))
        /\ \A month \in {"December", "January", "February"} :
              Count(locals.submission_months, month) =
                  Cardinality(InMonth(locals.submissions, month))
        /\ Len(locals.submission_months) =
              Cardinality(AcceptedIn(locals.submissions))

\* one problem accepted twice (in December and in January) and rejected once
C9_Witness ==
    /\ Succeeded
    /\ Len(locals.submissions) = 3
    /\ Cardinality(AcceptedIn(locals.submissions)) = 2
    /\ response.body.total_problems_solved = 1
    /\ response.body.problems_solved_this_year = 1
    /\ Count(locals.topics, "dp") = 2
    /\ Count(locals.topics, "math") = 1
    /\ Count(locals.submission_months, "December") = 1
    /\ Count(locals.submission_months, "January") = 1

\* what one step of a fetch_data task does to the cache and to upstream
FetchStep(i) ==
    /\ (futures[i].pc = "line39" /\ futures'[i].pc = "done"
        /\ ~IsExc(futures'[i].result)) =>
          /\ CacheContains(cache', futures[i].key)
          /\ CacheGet(cache', futures[i].key) = futures'[i].result
    /\ (futures[i].pc = "queued" /\ futures'[i].pc # "queued"
        /\ CacheContains(cache, futures[i].key)) =>
          /\ futures'[i].pc = "line38"
          /\ calls' = calls
          /\ cache' = cache
    /\ (futures[i].pc = "line38" /\ futures'[i].pc = "done"
        /\ CacheContains(cache, futures[i].key)) =>
          /\ futures'[i].result = CacheGet(cache, futures[i].key)
          /\ calls' = calls
          /\ cache' = cache

\* a request that was served a stored failure is answered 500
StoredFailureFailsRequest ==
    (pc = "idle" /\ response # None /\ futures # <<>>
     /\ \E i \in 1..4 : /\ futures[i].key \notin calls
                        /\ futures[i].result = Failed) =>
        response.code = 500

\* C10: fetch_data stores every payload it downloads, whatever its status; a
\* call whose key has a live entry returns the stored payload and contacts
\* nobody; so a request that meets a live entry whose status is not "OK" is
\* answered 500, whatever upstream would answer by then.
C10_CachedResponseIsServed ==
    /\ [][(pc = "pool" /\ pc' = "pool") => \A i \in 1..4 : FetchStep(i)]_vars
    /\ []StoredFailureFailsRequest

\* the second request found the first one's failure in the cache
C10_Witness ==
    /\ pc = "idle"
    /\ nreq = 2
    /\ futures # <<>>
    /\ calls = {}
    /\ futures[2].result = Failed
    /\ response.code = 500

====
